---- MODULE Spec2Model ----
(***************************************************************************)
(* Model of click-odoo-tester (src/src/tester.py): the Git helper that     *)
(* detects changed paths, the mapping of paths to Odoo modules, the        *)
(* include/exclude set algebra of _parse_env_args and the evaluation step  *)
(* of OdooTestExecution.                                                   *)
(*                                                                         *)
(* Python values are records with a "kind" field: None, bytes and str.     *)
(* A text is a sequence of tokens; "/" and "\n" are tokens of their own so *)
(* that split, basename and the trailing newline of a command's output are *)
(* computed, not assumed.                                                   *)
(***************************************************************************)
EXTENDS Integers, Sequences, FiniteSets, TLC

VARIABLES
    config,        \* values of remote.origin.fetch in the repository: <<>> unset, <<text>> set
    tracking,      \* remote refs present in the repository (fetched)
    cwd,           \* working directory of the process (relative paths resolve against it)
    gpc,           \* per caller: position inside Git.get_changed_paths / Git.fetch_remote
    ref,           \* per caller: base_ref argument
    original,      \* per caller: local variable `original` of fetch_remote
    items,         \* per caller: list returned by get_changed_paths
    cfg0,          \* history: config before any call
    touched,       \* history: caller issued a config or fetch command
    cmdFailed,     \* history: per caller, which of the restore and diff commands exited non-zero
    readWidened,   \* history: caller read `original` while another caller's widening was in place
    lastWrite,     \* history: caller and step of the last rewrite of the config
    pc,            \* session: program position of the command-line invocation
    state,         \* session: coarse state (Idle, Resolving, Skipped, Executing, ...)
    trace,         \* history: sequence of coarse states entered
    git_dir,       \* --git-dir given
    include,       \* --include module names
    exclude,       \* --exclude module names
    changed,       \* result of _get_changed_modules_from_git
    modules,       \* effective module set
    odoo_modules,  \* module set appended to odoo_args after -i and -u
    notice,        \* "No module to test. Exiting..." echoed
    exit_code,     \* termination status, -1 while running
    signal,        \* failure message given to ctx.fail
    exc,           \* uncaught exception that ended the invocation ("none" if none)
    serverStarted, \* odoo.service.server.start was called
    serverDone,    \* odoo.service.server.start returned
    store,         \* rows of ir_logging
    conn,          \* psycopg2 connection: "none", "open", "closed"
    logs,          \* rows fetched by the evaluation step
    queryCount,    \* number of executions of the log query
    processCount,  \* number of calls of process(logs)
    success        \* value returned by process(logs)

gitVars == <<config, tracking, cwd, gpc, ref, original, items, cfg0, touched,
             cmdFailed, readWidened, lastWrite>>
sessVars == <<pc, state, trace, git_dir, include, exclude, changed, modules,
              odoo_modules, notice, exit_code, signal, exc, serverStarted,
              serverDone, store, conn, logs, queryCount, processCount, success>>
vars == <<gitVars, sessVars>>

----------------------------------------------------------------------------
(* Bounds *)
NumProcs == 2   \* concurrent callers of Git.get_changed_paths
MaxPaths == 2   \* lines in the output of git diff-index
MaxLogs  == 2   \* rows in ir_logging

Procs == 1..NumProcs
Main  == 1      \* the caller that is the command-line invocation

----------------------------------------------------------------------------
(* Python values *)
None       == [kind |-> "None"]
Bytes(t)   == [kind |-> "bytes", data |-> t]
Str(t)     == [kind |-> "str", data |-> t]
CalledProcessError == [kind |-> "CalledProcessError"]

(* Texts *)
NL    == "\n"
Slash == "/"

IndexOf(t, tok) ==
    IF \E i \in 1..Len(t) : t[i] = tok
    THEN CHOOSE i \in 1..Len(t) : t[i] = tok /\ \A j \in 1..(i-1) : t[j] # tok
    ELSE 0

RECURSIVE Split(_, _)
Split(t, sep) ==
    LET i == IndexOf(t, sep)
    IN  IF i = 0 THEN <<t>>
        ELSE <<SubSeq(t, 1, i-1)>> \o Split(SubSeq(t, i+1, Len(t)), sep)

Split1(t, sep) ==
    LET i == IndexOf(t, sep)
    IN  IF i = 0 THEN <<t>>
        ELSE <<SubSeq(t, 1, i-1), SubSeq(t, i+1, Len(t))>>

RECURSIVE Strip(_, _)
Strip(t, tok) ==
    IF t = <<>> THEN t
    ELSE IF t[1] = tok THEN Strip(Tail(t), tok)
    ELSE IF t[Len(t)] = tok THEN Strip(SubSeq(t, 1, Len(t)-1), tok)
    ELSE t

LastIndexOf(t, tok) ==
    IF \E i \in 1..Len(t) : t[i] = tok
    THEN CHOOSE i \in 1..Len(t) : t[i] = tok /\ \A j \in (i+1)..Len(t) : t[j] # tok
    ELSE 0

Basename(t) == SubSeq(t, LastIndexOf(t, Slash) + 1, Len(t))

----------------------------------------------------------------------------
(* The file system seen by odoo.modules.module.get_module_root *)
WsDir      == <<"/", "ws">>
InModule   == <<"/", "ws", "/", "modules", "/", "sale", "/", "models">>
Cwds       == {WsDir, InModule}
ManifestDirs == { <<"/", "ws", "/", "modules", "/", "sale">>,
                  <<"/", "ws", "/", "modules", "/", "stock">> }

PSale   == <<"modules", "/", "sale", "/", "models", "/", "x.py">>
PStock  == <<"modules", "/", "stock", "/", "views", "/", "y.xml">>
PReadme == <<"README.md">>
Paths   == {PSale, PStock, PReadme}

ModuleNames == { <<"sale">>, <<"stock">>, <<"crm">> }

\* os.path.abspath of a path, relative paths resolved against cwd
Abspath(path) ==
    IF path = <<>> THEN cwd
    ELSE IF path[1] = Slash THEN path
    ELSE cwd \o <<Slash>> \o path

\* os.path.abspath(os.path.join(a, os.pardir)) of an absolute path a
Parent(a) ==
    LET i == LastIndexOf(a, Slash)
    IN  IF i <= 1 THEN <<Slash>> ELSE SubSeq(a, 1, i-1)

\* odoo.modules.module.module_manifest: None for a false path, else the
\* manifest file under path if there is one
ModuleManifest(path) == path # <<>> /\ Abspath(path) \in ManifestDirs

\* odoo.modules.module.get_module_root: walk upward to the nearest directory
\* holding a manifest, None when the file system root is reached
RECURSIVE get_module_root(_)
get_module_root(path) ==
    IF ModuleManifest(path) THEN Str(path)
    ELSE LET new_path == Parent(Abspath(path))
         IN  IF path = new_path THEN None ELSE get_module_root(new_path)

\* os.path.basename(get_module_root(path)) for every path, collected in a set;
\* os.path.basename(None) raises TypeError
get_changed_modules(changed_paths) ==
    IF \E i \in 1..Len(changed_paths) : get_module_root(changed_paths[i]) = None
    THEN [kind |-> "TypeError"]
    ELSE [kind |-> "set",
          data |-> { Basename(get_module_root(changed_paths[i]).data) :
                       i \in 1..Len(changed_paths) }]

----------------------------------------------------------------------------
(* Git *)
HeadRef         == <<"HEAD">>
OriginMaster    == <<"origin", "/", "master">>
UpstreamFeature == <<"upstream", "/", "feature", "/", "1">>
Refs            == {HeadRef, OriginMaster, UpstreamFeature}

DefaultRefspec == <<"+refs/heads/*:refs/remotes/origin/*">>
InitConfigs    == { <<>>, <<DefaultRefspec>> }

HasSlash(r) == IndexOf(r, Slash) # 0

\* "+refs/heads/{ref_branch}:refs/remotes/{remote}/{ref_branch}".format(...)
Refspec(r) ==
    LET parts      == Split1(r, Slash)
        remote     == parts[1]
        ref_branch == parts[2]
    IN  <<"+refs/heads/">> \o ref_branch \o <<":refs/remotes/">> \o remote
          \o <<Slash>> \o ref_branch

\* Git.run: the value returned for an outcome of subprocess.check_output,
\* which is CalledProcessError or the bytes written to stdout
IsInstanceStr(res) == res.kind = "str"
run(outcome) ==
    LET res == IF outcome = CalledProcessError THEN None ELSE outcome
    IN  IF IsInstanceStr(res) THEN Str(Strip(res.data, NL)) ELSE res

\* stdout of git config --get: the value followed by a newline
ConfigGetOutcome(fail) ==
    IF fail \/ config = <<>> THEN CalledProcessError
    ELSE Bytes(config[1] \o <<NL>>)

\* stdout of git diff-index --name-only: one line per path
RECURSIVE DiffText(_)
DiffText(ps) == IF ps = <<>> THEN <<>> ELSE ps[1] \o <<NL>> \o DiffText(Tail(ps))
PathSeqs == UNION { [1..n -> Paths] : n \in 0..MaxPaths }
\* the diff seen by the concurrent callers: one changed file
LibPathSeqs == { <<PSale>> }

Resolvable(r) == ~HasSlash(r) \/ r \in tracking

Truthy(res) == res.kind = "bytes" /\ res.data # <<>>

(* Git.fetch_remote, line 60 *)
FetchRemoteCheck(p) ==
    /\ gpc[p] = "fr_check"
    /\ gpc' = [gpc EXCEPT ![p] = IF HasSlash(ref[p]) THEN "fr_get" ELSE "diff"]
    /\ UNCHANGED <<config, tracking, cwd, ref, original, items, cfg0, touched,
                   cmdFailed, readWidened, lastWrite>>
    /\ UNCHANGED sessVars

\* history: another caller has widened the configuration and not yet restored it
InWindow(p) ==
    \E q \in Procs \ {p} :
        /\ gpc[q] \in {"fr_fetch", "fr_restore"}
        /\ lastWrite = [by |-> q, step |-> "widen"]

(* Git.fetch_remote, line 62 *)
FetchRemoteGetOriginal(p) ==
    /\ gpc[p] = "fr_get"
    /\ \E fail \in BOOLEAN :
          /\ original' = [original EXCEPT ![p] = run(ConfigGetOutcome(fail))]
          /\ readWidened' = [readWidened EXCEPT ![p] = ~fail /\ InWindow(p)]
    /\ touched' = [touched EXCEPT ![p] = TRUE]
    /\ gpc' = [gpc EXCEPT ![p] = "fr_widen"]
    /\ UNCHANGED <<config, tracking, cwd, ref, items, cfg0, cmdFailed, lastWrite>>
    /\ UNCHANGED sessVars

(* Git.fetch_remote, lines 63-74 *)
FetchRemoteWiden(p) ==
    /\ gpc[p] = "fr_widen"
    /\ \E fail \in BOOLEAN :
          /\ config' = IF fail THEN config ELSE <<Refspec(ref[p])>>
          /\ lastWrite' = IF fail THEN lastWrite ELSE [by |-> p, step |-> "widen"]
    /\ gpc' = [gpc EXCEPT ![p] = "fr_fetch"]
    /\ UNCHANGED <<tracking, cwd, ref, original, items, cfg0, touched, cmdFailed,
                   readWidened>>
    /\ UNCHANGED sessVars

(* Git.fetch_remote, line 75 *)
FetchRemoteFetch(p) ==
    /\ gpc[p] = "fr_fetch"
    /\ \E fail \in BOOLEAN :
          tracking' = IF fail THEN tracking ELSE tracking \cup {ref[p]}
    /\ gpc' = [gpc EXCEPT ![p] = "fr_restore"]
    /\ UNCHANGED <<config, cwd, ref, original, items, cfg0, touched, cmdFailed,
                   readWidened, lastWrite>>
    /\ UNCHANGED sessVars

(* variant: line 76 passes the widened refspec instead of `original` *)
FetchRemoteRestore_WritesWidened(p) ==
    /\ gpc[p] = "fr_restore"
    /\ IF original[p] = None
       THEN /\ gpc' = [gpc EXCEPT ![p] = "raised"]
            /\ UNCHANGED <<config, cmdFailed, lastWrite>>
       ELSE /\ \E fail \in BOOLEAN :
                 /\ config' = IF fail THEN config ELSE <<Refspec(ref[p])>>
                 /\ cmdFailed' = [cmdFailed EXCEPT ![p] =
                                    IF fail THEN @ \cup {"restore"} ELSE @]
                 /\ lastWrite' = IF fail THEN lastWrite
                                 ELSE [by |-> p, step |-> "restore"]
            /\ gpc' = [gpc EXCEPT ![p] = "diff"]
    /\ UNCHANGED <<tracking, cwd, ref, original, items, cfg0, touched, readWidened>>
    /\ UNCHANGED sessVars

(* Git.fetch_remote, line 76: a None in the argument list makes                *)
(* subprocess.check_output raise TypeError, which Git.run does not catch       *)
FetchRemoteRestore(p) ==
    /\ gpc[p] = "fr_restore"
    /\ IF original[p] = None
       THEN /\ gpc' = [gpc EXCEPT ![p] = "raised"]
            /\ UNCHANGED <<config, cmdFailed, lastWrite>>
       ELSE /\ \E fail \in BOOLEAN :
                 /\ config' = IF fail THEN config ELSE <<original[p].data>>
                 /\ cmdFailed' = [cmdFailed EXCEPT ![p] =
                                    IF fail THEN @ \cup {"restore"} ELSE @]
                 /\ lastWrite' = IF fail THEN lastWrite
                                 ELSE [by |-> p, step |-> "restore"]
            /\ gpc' = [gpc EXCEPT ![p] = "diff"]
    /\ UNCHANGED <<tracking, cwd, ref, original, items, cfg0, touched, readWidened>>
    /\ UNCHANGED sessVars

(* Git.get_changed_paths, lines 87-90 *)
DiffIndex(p, diffs) ==
    /\ gpc[p] = "diff"
    /\ \E outcome \in {CalledProcessError} \cup
                      (IF Resolvable(ref[p])
                       THEN {Bytes(DiffText(ps)) : ps \in diffs} ELSE {}) :
          LET res == run(outcome)
          IN  /\ items' = [items EXCEPT ![p] =
                             IF Truthy(res) THEN Split(res.data, NL) ELSE <<>>]
              /\ cmdFailed' = [cmdFailed EXCEPT ![p] =
                                 IF outcome = CalledProcessError
                                 THEN @ \cup {"diff"} ELSE @]
    /\ gpc' = [gpc EXCEPT ![p] = "returned"]
    /\ UNCHANGED <<config, tracking, cwd, ref, original, cfg0, touched,
                   readWidened, lastWrite>>
    /\ UNCHANGED sessVars

(* A caller invokes Git(git_dir).get_changed_paths(base_ref), line 86 *)
GetChangedPaths(p, base_ref) ==
    /\ gpc[p] = "idle"
    /\ pc = "lib"
    /\ ref' = [ref EXCEPT ![p] = base_ref]
    /\ gpc' = [gpc EXCEPT ![p] = "fr_check"]
    /\ UNCHANGED <<config, tracking, cwd, original, items, cfg0, touched,
                   cmdFailed, readWidened, lastWrite>>
    /\ UNCHANGED sessVars



----------------------------------------------------------------------------
(* The command-line invocation *)
Levels  == {"info", "error"}
LogSeqs == UNION { [1..n -> Levels] : n \in 0..MaxLogs }

Enter(s) == /\ state' = s
            /\ trace' = Append(trace, s)

(* main is invoked: click parses the options, _parse_env_args starts, *)
(* lines 113-131                                                       *)
Invoke ==
    /\ pc = "idle"
    /\ \E gd \in BOOLEAN, inc \in SUBSET ModuleNames, exc_ \in SUBSET ModuleNames :
          /\ git_dir' = gd
          /\ include' = inc
          /\ exclude' = exc_
    /\ Enter("Resolving")
    /\ pc' = "parse"
    /\ UNCHANGED <<changed, modules, odoo_modules, notice, exit_code, signal, exc,
                   serverStarted, serverDone, store, conn, logs, queryCount,
                   processCount, success>>
    /\ UNCHANGED gitVars

(* line 133 with line 105: Git(git_dir).get_changed_paths(base_ref) with the *)
(* default base_ref of _get_changed_modules_from_git, or the empty set       *)
ParseEnvArgsChanged ==
    /\ pc = "parse"
    /\ IF git_dir
       THEN /\ ref' = [ref EXCEPT ![Main] = OriginMaster]
            /\ gpc' = [gpc EXCEPT ![Main] = "fr_check"]
            /\ pc' = "git"
            /\ UNCHANGED changed
       ELSE /\ changed' = {}
            /\ pc' = "algebra"
            /\ UNCHANGED <<ref, gpc>>
    /\ UNCHANGED <<config, tracking, cwd, original, items, cfg0, touched,
                   cmdFailed, readWidened, lastWrite>>
    /\ UNCHANGED <<state, trace, git_dir, include, exclude, modules, odoo_modules,
                   notice, exit_code, signal, exc, serverStarted, serverDone,
                   store, conn, logs, queryCount, processCount, success>>

(* _get_changed_modules_from_git, lines 105-109, once get_changed_paths has *)
(* returned or raised                                                        *)
GetChangedModulesFromGit ==
    /\ pc = "git"
    /\ gpc[Main] \in {"returned", "raised"}
    /\ LET res == IF gpc[Main] = "raised" THEN [kind |-> "TypeError"]
                  ELSE get_changed_modules(items[Main])
       IN  IF res.kind = "TypeError"
           THEN /\ exc' = "TypeError"
                /\ exit_code' = 1
                /\ pc' = "raised"
                /\ UNCHANGED changed
           ELSE /\ changed' = res.data
                /\ pc' = "algebra"
                /\ UNCHANGED <<exc, exit_code>>
    /\ UNCHANGED <<config, tracking, cwd, gpc, ref, original, items, cfg0, touched,
                   cmdFailed, readWidened, lastWrite>>
    /\ UNCHANGED <<state, trace, git_dir, include, exclude, modules, odoo_modules,
                   notice, signal, serverStarted, serverDone, store, conn, logs,
                   queryCount, processCount, success>>

\* variant: the include list is added after the exclusion
EffectiveModules_IncludeAfterExclude(c, inc, exc_) == (c \ exc_) \cup inc

\* line 134
EffectiveModules(c, inc, exc_) == (c \cup inc) \ exc_

(* variant: the empty set is not checked, execution always proceeds *)
SetAlgebra_NoExit ==
    /\ pc = "algebra"
    /\ modules' = (changed \cup include) \ exclude
    /\ odoo_modules' = modules'
    /\ Enter("Executing")
    /\ pc' = "server"
    /\ UNCHANGED <<notice, exit_code>>
    /\ UNCHANGED <<git_dir, include, exclude, changed, signal, exc, serverStarted,
                   serverDone, store, conn, logs, queryCount, processCount, success>>
    /\ UNCHANGED gitVars

(* _parse_env_args, lines 134-141 *)
SetAlgebra ==
    /\ pc = "algebra"
    /\ modules' = EffectiveModules(changed, include, exclude)
    /\ IF modules' = {}
       THEN /\ notice' = TRUE
            /\ exit_code' = 0
            /\ Enter("Skipped")
            /\ pc' = "exited"
            /\ UNCHANGED odoo_modules
       ELSE /\ odoo_modules' = modules'
            /\ Enter("Executing")
            /\ pc' = "server"
            /\ UNCHANGED <<notice, exit_code>>
    /\ UNCHANGED <<git_dir, include, exclude, changed, signal, exc, serverStarted,
                   serverDone, store, conn, logs, queryCount, processCount, success>>
    /\ UNCHANGED gitVars

(* variant: the generator yields before the server has run to completion *)
ServerStart_YieldBeforeRun ==
    /\ pc = "server"
    /\ serverStarted' = TRUE
    /\ pc' = "body"
    /\ UNCHANGED <<state, trace, git_dir, include, exclude, changed, modules,
                   odoo_modules, notice, exit_code, signal, exc, serverDone, store,
                   conn, logs, queryCount, processCount, success>>
    /\ UNCHANGED gitVars

(* OdooTestExecution, line 146: odoo.service.server.start is called and runs *)
(* the tests                                                                 *)
ServerStart ==
    /\ pc = "server"
    /\ serverStarted' = TRUE
    /\ pc' = "running"
    /\ UNCHANGED <<state, trace, git_dir, include, exclude, changed, modules,
                   odoo_modules, notice, exit_code, signal, exc, serverDone, store,
                   conn, logs, queryCount, processCount, success>>
    /\ UNCHANGED gitVars

(* line 146: server.start returns (stop=True), the value is yielded *)
ServerReturn ==
    /\ pc = "running"
    /\ serverDone' = TRUE
    /\ \E rows \in LogSeqs : store' = rows
    /\ pc' = "body"
    /\ UNCHANGED <<state, trace, git_dir, include, exclude, changed, modules,
                   odoo_modules, notice, exit_code, signal, exc, serverStarted,
                   conn, logs, queryCount, processCount, success>>
    /\ UNCHANGED gitVars

(* the body of the with statement: main, lines 176-178, then line 147 *)
Body ==
    /\ pc = "body"
    /\ pc' = "connect"
    /\ UNCHANGED <<state, trace, git_dir, include, exclude, changed, modules,
                   odoo_modules, notice, exit_code, signal, exc, serverStarted,
                   serverDone, store, conn, logs, queryCount, processCount, success>>
    /\ UNCHANGED gitVars

(* line 149: psycopg2.connect *)
Connect ==
    /\ pc = "connect"
    /\ Enter("Evaluating")
    /\ \E ok \in BOOLEAN :
          IF ok
          THEN /\ conn' = "open"
               /\ pc' = "query"
               /\ UNCHANGED <<exc, exit_code>>
          ELSE /\ exc' = "OperationalError"
               /\ exit_code' = 1
               /\ pc' = "raised"
               /\ UNCHANGED conn
    /\ UNCHANGED <<git_dir, include, exclude, changed, modules, odoo_modules,
                   notice, signal, serverStarted, serverDone, store, logs,
                   queryCount, processCount, success>>
    /\ UNCHANGED gitVars

(* lines 150-152: the query; leaving the with block of a psycopg2 connection *)
(* commits or rolls back and does not close it, and an exception skips       *)
(* line 153                                                                  *)
Query ==
    /\ pc = "query"
    /\ queryCount' = queryCount + 1
    /\ \E ok \in BOOLEAN :
          IF ok
          THEN /\ logs' = store
               /\ pc' = "close"
               /\ UNCHANGED <<exc, exit_code>>
          ELSE /\ exc' = "DatabaseError"
               /\ exit_code' = 1
               /\ pc' = "raised"
               /\ UNCHANGED logs
    /\ UNCHANGED <<state, trace, git_dir, include, exclude, changed, modules,
                   odoo_modules, notice, signal, serverStarted, serverDone, store,
                   conn, processCount, success>>
    /\ UNCHANGED gitVars

(* line 153 *)
Close ==
    /\ pc = "close"
    /\ conn' = "closed"
    /\ pc' = "process"
    /\ UNCHANGED <<state, trace, git_dir, include, exclude, changed, modules,
                   odoo_modules, notice, exit_code, signal, exc, serverStarted,
                   serverDone, store, logs, queryCount, processCount, success>>
    /\ UNCHANGED gitVars

\* variant: the test of line 155 is inverted
Terminal_Inverted(verdict) == IF verdict THEN "Failed" ELSE "Passed"

\* lines 155-156: the terminal state for a verdict
Terminal(verdict) == IF verdict THEN "Passed" ELSE "Failed"

(* lines 154-156: process(logs) from .format gives the verdict; ctx.fail *)
(* raises click's UsageError, exit status 2                              *)
Process ==
    /\ pc = "process"
    /\ processCount' = processCount + 1
    /\ \E verdict \in BOOLEAN :
          /\ success' = verdict
          /\ Enter(Terminal(verdict))
          /\ IF Terminal(verdict) = "Failed"
             THEN /\ signal' = "Tests failed"
                  /\ exit_code' = 2
             ELSE /\ exit_code' = 0
                  /\ UNCHANGED signal
    /\ pc' = "exited"
    /\ UNCHANGED <<git_dir, include, exclude, changed, modules, odoo_modules,
                   notice, exc, serverStarted, serverDone, store, conn, logs,
                   queryCount>>
    /\ UNCHANGED gitVars

----------------------------------------------------------------------------
InitGit ==
    /\ config \in InitConfigs
    /\ cfg0 = config
    /\ tracking \in { {}, {OriginMaster} }
    /\ cwd \in Cwds
    /\ gpc = [p \in Procs |-> "idle"]
    /\ ref = [p \in Procs |-> HeadRef]
    /\ original = [p \in Procs |-> None]
    /\ items = [p \in Procs |-> <<>>]
    /\ touched = [p \in Procs |-> FALSE]
    /\ cmdFailed = [p \in Procs |-> {}]
    /\ readWidened = [p \in Procs |-> FALSE]
    /\ lastWrite = [by |-> 0, step |-> "none"]

InitSession(start) ==
    /\ pc = start
    /\ state = "Idle"
    /\ trace = <<"Idle">>
    /\ git_dir = FALSE
    /\ include = {}
    /\ exclude = {}
    /\ changed = {}
    /\ modules = {}
    /\ odoo_modules = {}
    /\ notice = FALSE
    /\ exit_code = -1
    /\ signal = ""
    /\ exc = "none"
    /\ serverStarted = FALSE
    /\ serverDone = FALSE
    /\ store = <<>>
    /\ conn = "none"
    /\ logs = <<>>
    /\ queryCount = 0
    /\ processCount = 0
    /\ success = FALSE

(* One command-line invocation *)
Init == InitGit /\ InitSession("idle")

Next ==
    \/ Invoke
    \/ ParseEnvArgsChanged
    \/ FetchRemoteCheck(Main)
    \/ FetchRemoteGetOriginal(Main)
    \/ FetchRemoteWiden(Main)
    \/ FetchRemoteFetch(Main)
    \/ FetchRemoteRestore(Main)
    \/ DiffIndex(Main, PathSeqs)
    \/ GetChangedModulesFromGit
    \/ SetAlgebra
    \/ ServerStart
    \/ ServerReturn
    \/ Body
    \/ Connect
    \/ Query
    \/ Close
    \/ Process

Spec == Init /\ [][Next]_vars

(* Concurrent callers of Git.get_changed_paths on one repository *)
InitLib == InitGit /\ cwd = WsDir /\ tracking = {} /\ InitSession("lib")

NextLib ==
    \E p \in Procs :
        \/ \E r \in Refs : GetChangedPaths(p, r)
        \/ FetchRemoteCheck(p)
        \/ FetchRemoteGetOriginal(p)
        \/ FetchRemoteWiden(p)
        \/ FetchRemoteFetch(p)
        \/ FetchRemoteRestore(p)
        \/ DiffIndex(p, LibPathSeqs)

SpecLib == InitLib /\ [][NextLib]_vars


----------------------------------------------------------------------------
(* Properties *)

Computed == state \notin {"Idle", "Resolving"}
Delegated == state \in {"Executing", "Evaluating", "Passed", "Failed"}

\* C1: the module set handed to test execution after -i and -u is exactly
\* (changed \cup include) \ exclude: an excluded module is never selected, an
\* included module that is not excluded always is, and nothing else is added.
C1_EffectiveSetIsUnionMinusExclude ==
    Delegated =>
        /\ \A m \in ModuleNames \cup changed :
              m \in odoo_modules <=> ((m \in changed \/ m \in include) /\ m \notin exclude)
        /\ odoo_modules \subseteq ModuleNames \cup changed

C1_Witness ==
    /\ state = "Executing"
    /\ changed = { <<"sale">> }
    /\ include = { <<"crm">>, <<"stock">> }
    /\ exclude = { <<"sale">>, <<"stock">> }
    /\ odoo_modules = { <<"crm">> }

\* C2: an empty effective module set ends the invocation in Skipped with the
\* notice echoed and exit status 0, and the server is never started nor the
\* logs queried or evaluated; a non-empty set never ends in Skipped.
C2_EmptySetSkips ==
    /\ Computed => (modules = {} <=> state = "Skipped")
    /\ state = "Skipped" =>
          /\ notice
          /\ exit_code = 0
          /\ pc = "exited"
          /\ ~serverStarted
          /\ queryCount = 0
          /\ processCount = 0
          /\ exc = "none"
    /\ Delegated => ~notice

C2_Witness ==
    /\ state = "Skipped"
    /\ notice
    /\ exit_code = 0
    /\ changed # {}
    /\ include # {}

\* C3 (as claimed): when fetch_remote has finished for a remote/branch ref the
\* configuration is what it was before the call, and a ref without "/" never
\* touches the repository.
C3_ConfigRestoredExactly ==
    \A p \in Procs :
        /\ (HasSlash(ref[p]) /\ gpc[p] \in {"diff", "returned", "raised"}) => config = cfg0
        /\ ~HasSlash(ref[p]) => ~touched[p]

\* C4 (as claimed): get_changed_paths never raises, and a failed diff-index
\* gives the empty list.
C4_DetectionNeverAborts ==
    \A p \in Procs :
        /\ gpc[p] # "raised"
        /\ (gpc[p] = "returned" /\ "diff" \in cmdFailed[p]) => items[p] = <<>>

RootedBasenames(paths) ==
    { Basename(get_module_root(paths[i]).data) :
        i \in { j \in 1..Len(paths) : get_module_root(paths[j]) # None } }

\* C5 (as claimed): once the changed paths are mapped, the result is the set
\* of base names of the module roots found, and a path without a module root
\* is dropped without an error.
C5_UnrootedPathsDropped ==
    (git_dir /\ gpc[Main] = "returned" /\ pc # "git") =>
        /\ exc # "TypeError"
        /\ changed = RootedBasenames(items[Main])

IsPrefix(s, t) == Len(s) <= Len(t) /\ SubSeq(t, 1, Len(s)) = s
LinearPaths ==
    { <<"Idle", "Resolving", "Skipped">>,
      <<"Idle", "Resolving", "Executing", "Evaluating", "Passed">>,
      <<"Idle", "Resolving", "Executing", "Evaluating", "Failed">> }

\* C6: the states entered form a prefix of Idle, Resolving, then Skipped or
\* Executing, Evaluating, Passed or Failed; the log query and process run at
\* most once, only after the server has returned, and exactly once when the
\* invocation ends in Passed or Failed.
C6_LinearOneShot ==
    /\ \E path \in LinearPaths : IsPrefix(trace, path)
    /\ state = trace[Len(trace)]
    /\ queryCount <= 1
    /\ processCount <= 1
    /\ processCount <= queryCount
    /\ (queryCount > 0 \/ conn # "none") =>
          (serverStarted /\ serverDone /\ state \in {"Evaluating", "Passed", "Failed"})
    /\ state \in {"Evaluating", "Passed", "Failed"} => serverDone
    /\ state \in {"Passed", "Failed"} => (queryCount = 1 /\ processCount = 1)

C6_Witness ==
    /\ trace = <<"Idle", "Resolving", "Executing", "Evaluating", "Passed">>
    /\ queryCount = 1
    /\ processCount = 1
    /\ git_dir

\* C7: after the log records were read and evaluated, the invocation fails
\* with "Tests failed" and a non-zero status exactly when process returned
\* false, and ends successfully with status 0 when it returned true.
C7_FailsIffVerdictFalse ==
    /\ processCount = 1 =>
          /\ state \in {"Passed", "Failed"}
          /\ (signal = "Tests failed" /\ exit_code # 0 /\ state = "Failed") <=> ~success
          /\ (signal = "" /\ exit_code = 0 /\ state = "Passed") <=> success
    /\ processCount = 0 => signal = ""

C7_Witness ==
    /\ state = "Failed"
    /\ signal = "Tests failed"
    /\ exit_code = 2
    /\ logs = <<"info", "error">>
    /\ ~success

NoneRunning == \A p \in Procs : gpc[p] \in {"idle", "returned", "raised"}

\* C8: when a caller read `original` while another caller's widened refspec
\* was in place and its restore is the last rewrite, then after all callers
\* have finished the configuration holds that other caller's widened refspec
\* and differs from the value it had before either started.
C8_RaceLeavesWidenedConfig ==
    \A p \in Procs :
        (NoneRunning /\ readWidened[p] /\ lastWrite = [by |-> p, step |-> "restore"]) =>
            /\ config # cfg0
            /\ config # <<>>
            /\ \E q \in Procs \ {p} :
                  HasSlash(ref[q]) /\ Strip(config[1], NL) = Refspec(ref[q])
            /\ cfg0 # <<>> => Strip(config[1], NL) # Strip(cfg0[1], NL)

C8_Witness ==
    \E p \in Procs : \E q \in Procs \ {p} :
        /\ NoneRunning
        /\ gpc[p] = "returned" /\ gpc[q] = "returned"
        /\ cmdFailed[p] = {} /\ cmdFailed[q] = {}
        /\ readWidened[p] /\ ~readWidened[q]
        /\ lastWrite = [by |-> p, step |-> "restore"]
        /\ cfg0 = <<DefaultRefspec>>
        /\ ref[p] = OriginMaster /\ ref[q] = UpstreamFeature
        /\ config = << Refspec(UpstreamFeature) \o <<NL>> >>

\* C9 (as claimed): the connection is not left open once the evaluation step
\* is over, whether the rows were fetched or the query failed; a failed query
\* ends the invocation without a verdict and without a second attempt.
C9_ConnectionReleased ==
    /\ pc \in {"process", "exited", "raised"} => conn # "open"
    /\ exc = "DatabaseError" =>
          (pc = "raised" /\ processCount = 0 /\ queryCount = 1 /\ exit_code # 0)

\* C10 (as claimed): a failed restore command is surfaced by fetch_remote as
\* an error.
C10_RestoreFailureSurfaced ==
    \A p \in Procs : "restore" \in cmdFailed[p] => gpc[p] = "raised"


====
